---- MODULE Spec2Model ----
(***************************************************************************)
(* A model of world.py of the Minecraft Overviewer: the chunk dispatcher   *)
(* WorldRenderer._render_chunks_async in its inline (processes = 1) and    *)
(* pooled (processes > 1) forms, the POI message queue it polls, and the   *)
(* region scanner _find_regionfiles / _get_chunklist.                      *)
(*                                                                         *)
(* The functions of chunk.py (find_oldimage, check_cache, render_and_save) *)
(* are not part of world.py; they are modelled as a fixed deterministic    *)
(* world: which chunks have a cached image, which of those images are      *)
(* still fresh, what a render job returns and which messages it emits.     *)
(***************************************************************************)
EXTENDS Integers, Sequences, FiniteSets, TLC

\* ------------------------------------------------------------------------
\* Bounds of the model
\* ------------------------------------------------------------------------

\* longest chunk list handed to _render_chunks_async
MaxChunks == 3

\* the pool size used for the pooled runs (processes > 1)
PoolProcesses == 2

\* ------------------------------------------------------------------------
\* The world on disk (the collaborators of chunk.py)
\* ------------------------------------------------------------------------

None == "None"

\* five chunk coordinates (chunkX, chunkY), one per behaviour of a chunk
ChunkA == <<0, 0>>
ChunkB == <<1, 0>>
ChunkC == <<0, 1>>
ChunkD == <<1, 1>>
ChunkE == <<2, 0>>

ChunkCoords == {ChunkA, ChunkB, ChunkC, ChunkD, ChunkE}

\* the chunks whose render_and_save raises an error instead of returning
Raises(c) == c = ChunkE

\* the cache directory of the world, and the cache directory of another
\* render of it
CacheDir == "cache"
OtherDir == "other"

\* the image files found in the other cache directory: chunk B and chunk D
\* have a prior image there
OtherDirFiles == {<<ChunkB, "other/1/0/img.1.0.nocave.b2.png">>,
                  <<ChunkD, "other/1/1/img.1.1.nocave.d2.png">>}

\* the image files found in cachedir when the WorldRenderer is built:
\* chunk A and chunk B have a prior image, C and D have none
CacheDirFiles == {<<ChunkA, "cache/0/0/img.0.0.nocave.a1.png">>,
                  <<ChunkB, "cache/1/0/img.1.0.nocave.b1.png">>}

\* the chunks whose stored data is not newer than their prior image
FreshChunks == {ChunkA}

\* POI entries: dictionaries with a 'chunk' key (x, y, z, type left out)
POIEntry(c, m) == [chunk |-> c, msg |-> m]

\* the messages a render job puts on the queue, in order
newpoi(e) == <<"newpoi", e>>
removePOI(c) == <<"removePOI", c>>

\* what render_and_save returns for a chunk: the path of the image written,
\* or None for a ghost chunk (a slot of the region with no stored chunk)
JobOut(c) ==
    CASE c = ChunkA -> "cache/0/0/img.0.0.nocave.a2.png"
      [] c = ChunkB -> "cache/1/0/img.1.0.nocave.b2.png"
      [] c = ChunkC -> None
      [] c = ChunkD -> "cache/1/1/img.1.1.nocave.d1.png"
      [] c = ChunkE -> None

\* the messages render_and_save puts on the queue while rendering a chunk
Emits(c) ==
    CASE c = ChunkA -> << >>
      [] c = ChunkB -> <<removePOI(ChunkB)>>
      [] c = ChunkC -> << >>
      [] c = ChunkD -> <<newpoi(POIEntry(ChunkD, "sign")), removePOI(ChunkD)>>
      [] c = ChunkE -> << >>

\* overviewer.dat in cachedir: absent ({}), or the pickled POI list of an
\* earlier run
PickleFiles == {{},
                {<<POIEntry(ChunkA, "old"), POIEntry(ChunkB, "old")>>},
                {<<POIEntry(ChunkB, "old"), POIEntry(ChunkD, "old"),
                   POIEntry(ChunkB, "older")>>}}

\* ------------------------------------------------------------------------
\* Pure helpers
\* ------------------------------------------------------------------------

Range(s) == {s[k] : k \in 1..Len(s)}

\* a filter that stops at the first entry it drops
filter_first(k, seq) ==
    IF \E n \in 1..Len(seq) : seq[n].chunk = k
    THEN LET n == CHOOSE n \in 1..Len(seq) :
                      /\ seq[n].chunk = k
                      /\ \A m \in 1..(n - 1) : seq[m].chunk # k
         IN SubSeq(seq, 1, n - 1) \o SubSeq(seq, n + 1, Len(seq))
    ELSE seq

\* filter(lambda x: pred, seq) for the predicate x['chunk'] != k
RECURSIVE filter_chunk(_, _)
filter_chunk(k, seq) ==
    IF seq = << >> THEN << >>
    ELSE IF Head(seq).chunk # k
         THEN <<Head(seq)>> \o filter_chunk(k, Tail(seq))
         ELSE filter_chunk(k, Tail(seq))

\* _convert_coords: (col, row) of every chunk and the bounding box; one pass
\* of the loop body
convert_body(c, acc) ==
    LET col == c[1] + c[2]
        row == c[2] - c[1]
        min(a, b) == IF a < b THEN a ELSE b
        max(a, b) == IF a > b THEN a ELSE b
    IN [mincol |-> min(acc.mincol, col), maxcol |-> max(acc.maxcol, col),
        minrow |-> min(acc.minrow, row), maxrow |-> max(acc.maxrow, row),
        chunks_translated |->
            Append(acc.chunks_translated, <<col, row, <<c[1], c[2]>>>>)]

\* the loop over chunks[lo..hi], from first to last: the first half, then the
\* second half from what the first half left (the first half is evaluated,
\* one element appended per chunk, before the second half is entered)
RECURSIVE convert_loop(_, _, _, _)
convert_loop(chunks, lo, hi, acc) ==
    IF lo > hi THEN acc
    ELSE IF lo = hi THEN convert_body(chunks[lo], acc)
    ELSE LET mid == (lo + hi) \div 2
             first == convert_loop(chunks, lo, mid, acc)
         IN IF Len(first.chunks_translated) =
                   Len(acc.chunks_translated) + (mid - lo + 1)
            THEN convert_loop(chunks, mid + 1, hi, first)
            ELSE first

\* a bounding box that starts from the origin instead of the first chunk
convert_coords_origin(chunks) ==
    convert_loop(chunks, 1, Len(chunks),
          [mincol |-> 0, maxcol |-> 0, minrow |-> 0, maxrow |-> 0,
           chunks_translated |-> << >>])

convert_coords(chunks) ==
    LET item == chunks[1]
    IN convert_loop(chunks, 1, Len(chunks),
          [mincol |-> item[1] + item[2], maxcol |-> item[1] + item[2],
           minrow |-> item[2] - item[1], maxrow |-> item[2] - item[1],
           chunks_translated |-> << >>])

\* an index that holds the files of the walk and nothing else
build_cached_fresh(index, files) ==
    [c \in {f[1] : f \in files} |-> (CHOOSE f \in files : f[1] = c)[2]]

\* the walk of cachedir in WorldRenderer.__init__: every image file found
\* is entered in the index, over whatever the index held for its key
build_cached(index, files) ==
    [c \in DOMAIN index \cup {f[1] : f \in files} |->
        IF \E f \in files : f[1] = c
        THEN (CHOOSE f \in files : f[1] = c)[2]
        ELSE index[c]]

\* chunk.find_oldimage: (image name, image path), both None without an entry
find_oldimage(chunkXY, index) ==
    IF chunkXY \in DOMAIN index
    THEN <<index[chunkXY], index[chunkXY]>>
    ELSE <<None, None>>

\* chunk.check_cache: the prior image exists and is still fresh
check_cache(chunkXY, oldimg) ==
    oldimg[2] # None /\ chunkXY \in FreshChunks

\* results[(col, row)] = value
dict_set(d, key, value) ==
    [k \in DOMAIN d \cup {key} |-> IF k = key THEN value ELSE d[k]]

\* one POI list for both messages: removePOI filters self.POI
apply_item_one_list(item, st) ==
    IF item[1] = "newpoi"
    THEN [POI |-> Append(st.POI, item[2]), persistent |-> st.persistent]
    ELSE IF item[1] = "removePOI"
    THEN [POI |-> filter_chunk(item[2], st.POI),
          persistent |-> filter_chunk(item[2], st.persistent)]
    ELSE st

\* a new entry that goes to the persistent sequence as well
apply_item_persist(item, st) ==
    IF item[1] = "newpoi"
    THEN [POI |-> Append(st.POI, item[2]),
          persistent |-> Append(st.persistent, item[2])]
    ELSE IF item[1] = "removePOI"
    THEN [POI |-> st.POI, persistent |-> filter_chunk(item[2], st.persistent)]
    ELSE st

\* the effect of one message on (self.POI, self.persistentData['POI'])
apply_item(item, st) ==
    IF item[1] = "newpoi"
    THEN [POI |-> Append(st.POI, item[2]), persistent |-> st.persistent]
    ELSE IF item[1] = "removePOI"
    THEN [POI |-> st.POI, persistent |-> filter_chunk(item[2], st.persistent)]
    ELSE st

\* ------------------------------------------------------------------------
\* The region scanner: _find_regionfiles and _get_chunklist
\* ------------------------------------------------------------------------

\* most files in the region directory of a world
MaxFiles == 2

\* a region file covers RegionSide x RegionSide chunk coordinates
RegionSide == 32
RegionChunks == 1024

\* file and directory names are sequences of characters
Name_r_0_0 == <<"r", ".", "0", ".", "0", ".", "m", "c", "r">>
Name_r_00_0 == <<"r", ".", "0", "0", ".", "0", ".", "m", "c", "r">>
Name_r_1_0 == <<"r", ".", "1", ".", "0", ".", "m", "c", "r">>
Name_r_m1_0 == <<"r", ".", "-", "1", ".", "0", ".", "m", "c", "r">>
Name_r_0_0_tmp == <<"r", ".", "0", ".", "0", ".", "m", "c", "r", ".", "t", "m", "p">>
Name_r_mcr == <<"r", ".", "m", "c", "r">>

FileNames == {Name_r_0_0, Name_r_00_0, Name_r_1_0, Name_r_m1_0,
              Name_r_0_0_tmp, Name_r_mcr}

Dir_region == <<"w", "/", "r", "e", "g", "i", "o", "n">>
Dir_old == <<"w", "/", "r", "e", "g", "i", "o", "n", "/", "o", "l", "d">>
Dir_nether == <<"w", "/", "r", "e", "g", "i", "o", "n", "/", "D", "I", "M", "-", "1">>

startswith(f, prefix) ==
    Len(f) >= Len(prefix) /\ SubSeq(f, 1, Len(prefix)) = prefix

endswith(f, suffix) ==
    Len(f) >= Len(suffix) /\ SubSeq(f, Len(f) - Len(suffix) + 1, Len(f)) = suffix

\* sub in s, for strings
contains(s, sub) ==
    \E k \in 1..(Len(s) - Len(sub) + 1) : SubSeq(s, k, k + Len(sub) - 1) = sub

\* f.split("."): the parts between the dots
RECURSIVE split_loop(_, _, _)
split_loop(f, cur, parts) ==
    IF f = << >> THEN Append(parts, cur)
    ELSE IF Head(f) = "." THEN split_loop(Tail(f), << >>, Append(parts, cur))
    ELSE split_loop(Tail(f), Append(cur, Head(f)), parts)

split(f) == split_loop(f, << >>, << >>)

Digits == {"0", "1", "2", "3", "4", "5", "6", "7", "8", "9"}

digit_value(ch) ==
    CASE ch = "0" -> 0 [] ch = "1" -> 1 [] ch = "2" -> 2 [] ch = "3" -> 3
      [] ch = "4" -> 4 [] ch = "5" -> 5 [] ch = "6" -> 6 [] ch = "7" -> 7
      [] ch = "8" -> 8 [] ch = "9" -> 9

RECURSIVE digits_value(_, _)
digits_value(ds, acc) ==
    IF ds = << >> THEN acc
    ELSE digits_value(Tail(ds), 10 * acc + digit_value(Head(ds)))

\* int(s): an optional sign and decimal digits, ValueError otherwise
int(s) ==
    LET signed == s # << >> /\ Head(s) \in {"-", "+"}
        ds == IF signed THEN Tail(s) ELSE s
    IN IF ds = << >> \/ \E k \in 1..Len(ds) : ds[k] \notin Digits
       THEN [ok |-> FALSE, value |-> 0]
       ELSE [ok |-> TRUE,
             value |-> IF signed /\ Head(s) = "-"
                       THEN 0 - digits_value(ds, 0) ELSE digits_value(ds, 0)]

path_join(dirpath, f) == dirpath \o <<"/">> \o f

\* the files of one directory: the inner loop of _find_regionfiles
RECURSIVE scan_files(_, _, _)
scan_files(dirpath, filenames, acc) ==
    IF filenames = << >> \/ acc.raised THEN acc
    ELSE LET f == Head(filenames)
             p == split(f)
         IN IF startswith(f, <<"r", ".">>) /\ endswith(f, <<".", "m", "c", "r">>)
            THEN IF Len(p) >= 3 /\ int(p[2]).ok /\ int(p[3]).ok
                 THEN scan_files(dirpath, Tail(filenames),
                         [raised |-> FALSE,
                          all_chunks |-> Append(acc.all_chunks,
                              <<int(p[2]).value, int(p[3]).value,
                                path_join(dirpath, f)>>)])
                 ELSE [raised |-> TRUE, all_chunks |-> acc.all_chunks]
            ELSE scan_files(dirpath, Tail(filenames), acc)

\* _find_regionfiles over the directories os.walk yields
RECURSIVE find_regionfiles(_, _)
find_regionfiles(walk, acc) ==
    IF walk = << >> \/ acc.raised THEN acc
    ELSE LET d == Head(walk)
         IN IF d.dirnames = << >> /\ d.filenames # << >>
               /\ ~contains(d.dirpath, <<"D", "I", "M", "-", "1">>)
            THEN find_regionfiles(Tail(walk),
                                  scan_files(d.dirpath, d.filenames, acc))
            ELSE find_regionfiles(Tail(walk), acc)

\* an expansion whose blocks of neighbouring regions share a border
these_chunks_overlap(region) ==
    [n \in 1..(RegionSide * RegionSide) |->
        <<region[1] * (RegionSide - 1) + ((n - 1) \div RegionSide),
          region[2] * (RegionSide - 1) + ((n - 1) % RegionSide),
          region[3]>>]

\* itertools.product(range(a, a + 32), range(b, b + 32)) as a list, each
\* pair tagged with the region file
these_chunks(region) ==
    [n \in 1..(RegionSide * RegionSide) |->
        <<region[1] * RegionSide + ((n - 1) \div RegionSide),
          region[2] * RegionSide + ((n - 1) % RegionSide),
          region[3]>>]

\* the loop of _get_chunklist over the regions
RECURSIVE get_chunklist(_)
get_chunklist(regs) ==
    IF regs = << >> THEN << >>
    ELSE these_chunks(Head(regs)) \o get_chunklist(Tail(regs))

\* the sequences over S without repetition, of length at most n
RECURSIVE DistinctSeqs(_, _)
DistinctSeqs(S, n) ==
    IF n = 0 THEN {<< >>}
    ELSE LET shorter == DistinctSeqs(S, n - 1)
         IN shorter \cup
            UNION {{Append(t, x) : x \in S \ Range(t)} : t \in shorter}

\* what os.walk yields for the region directory: the directory alone, or the
\* directory above a backup directory and a nether directory
Walks ==
    {<<[dirpath |-> Dir_region, dirnames |-> << >>, filenames |-> fs]>> :
        fs \in DistinctSeqs(FileNames, MaxFiles)}
    \cup
    {<<[dirpath |-> Dir_region,
        dirnames |-> <<<<"o", "l", "d">>, <<"D", "I", "M", "-", "1">>>>,
        filenames |-> fs],
       [dirpath |-> Dir_old, dirnames |-> << >>, filenames |-> gs],
       [dirpath |-> Dir_nether, dirnames |-> << >>, filenames |-> fs]>> :
        fs \in DistinctSeqs({Name_r_0_0, Name_r_1_0}, 1),
        gs \in DistinctSeqs({Name_r_0_0, Name_r_m1_0}, 1)}

\* ------------------------------------------------------------------------
\* State
\* ------------------------------------------------------------------------

VARIABLES
    pickleFile,    \* overviewer.dat in cachedir
    cached,        \* the module-level cache index
    chunks,        \* the chunk list of the run: (col, row, (chunkX, chunkY))
    processes,     \* the processes argument of the current run
    pc,            \* where the orchestrating thread is
    i,             \* the loop index of the orchestrating thread
    results,       \* the results dictionary
    q,             \* the manager queue
    POI,           \* self.POI
    persistentPOI, \* self.persistentData['POI']
    asyncresults,  \* the (col, row, result) handles of the pooled run
    pool,          \* the tasks submitted to the pool
    closed,        \* pool.close() has been called
    chunkmap,      \* the map returned by the run at each degree
    decided,       \* history: the chunks a cache decision was taken for
    rendered,      \* history: the chunks render_and_save was invoked for
    hist,          \* history: the messages applied, with the state around
    walk,          \* what os.walk yields for the region directory
    scan_pc,       \* where the scan of the region directory is
    regions,       \* the list _find_regionfiles returns
    all_chunks,    \* the list _get_chunklist returns
    version,       \* the version field of level.dat: {} when absent
    bbox,          \* mincol, maxcol, minrow, maxrow of go()
    cachedir,      \* self.cachedir of the WorldRenderer built last
    SpawnY,        \* the SpawnY field of level.dat
    blockArray,    \* blockArray[inChunkX, inChunkZ, :] of the spawn chunk
    spawnY,        \* the local spawnY of findTrueSpawn
    reads,         \* history: the heights at which findTrueSpawn read a block
    spawn_pc       \* where findTrueSpawn is

scan_vars == <<walk, scan_pc, regions, all_chunks>>

go_vars == <<version, bbox, cachedir>>

spawn_vars == <<SpawnY, blockArray, spawnY, reads, spawn_pc>>

\* the one world format the renderer accepts
SupportedVersion == 19132

\* findTrueSpawn is not running
SpawnOff ==
    /\ SpawnY = 0
    /\ blockArray = << >>
    /\ spawnY = 0
    /\ reads = {}
    /\ spawn_pc = "off"

vars == <<scan_vars, go_vars, spawn_vars, pickleFile, cached, chunks, processes, pc, i, results, q, POI, persistentPOI,
          asyncresults, pool, closed, chunkmap, decided, rendered, hist>>

Degrees == {1, PoolProcesses}

\* the chunk lists: go() hands over _convert_coords of the raw chunk list
RECURSIVE SeqsUpTo(_, _)
SeqsUpTo(S, n) ==
    IF n = 0 THEN {<< >>}
    ELSE LET shorter == SeqsUpTo(S, n - 1)
         IN shorter \cup {Append(s, x) : s \in shorter, x \in S}

RawChunkLists == SeqsUpTo(ChunkCoords, MaxChunks) \ {<< >>}

\* the module is loaded, no WorldRenderer is built yet
Init ==
    /\ pickleFile \in PickleFiles
    /\ cached = << >>
    /\ \E raw \in RawChunkLists : chunks = convert_coords(raw).chunks_translated
    /\ processes = 1
    /\ pc = "new"
    /\ i = 0
    /\ results = << >>
    /\ q = << >>
    /\ POI = << >>
    /\ persistentPOI = << >>
    /\ asyncresults = << >>
    /\ pool = << >>
    /\ closed = FALSE
    /\ chunkmap = [p \in Degrees |-> {}]
    /\ decided = << >>
    /\ rendered = << >>
    /\ hist = << >>
    /\ walk = << >>
    /\ scan_pc = "off"
    /\ regions = << >>
    /\ all_chunks = << >>
    /\ version = {SupportedVersion}
    /\ bbox = None
    /\ cachedir = CacheDir
    /\ SpawnOff

\* ------------------------------------------------------------------------
\* The orchestrating thread
\* ------------------------------------------------------------------------

\* a construction that takes a world of any version
Construct_anyversion ==
    /\ pc \in {"new", "finished"}
    /\ \E p \in Degrees : chunkmap[p] = {}
    /\ cached' = build_cached(cached, CacheDirFiles)
    /\ POI' = << >>
    /\ persistentPOI' = IF pickleFile = {} THEN << >>
                        ELSE CHOOSE s \in pickleFile : TRUE
    /\ hist' = << >>
    /\ pc' = "idle"
    /\ UNCHANGED <<pickleFile, chunks, processes, i, results, q, asyncresults,
                   pool, closed, chunkmap, decided, rendered>>

\* WorldRenderer.__init__: the version of the world is checked, the cache
\* index is filled, self.POI is emptied and the persistent data is loaded,
\* or defaulted; sys.exit(1) on a version that is not the supported one
Construct ==
    /\ pc \in {"new", "finished"}
    /\ \E p \in Degrees : chunkmap[p] = {}
    /\ IF version = {SupportedVersion}
       THEN /\ cached' = build_cached(cached, CacheDirFiles)
            /\ POI' = << >>
            /\ persistentPOI' = IF pickleFile = {} THEN << >>
                                ELSE CHOOSE s \in pickleFile : TRUE
            /\ hist' = << >>
            /\ pc' = "idle"
       ELSE /\ pc' = "exit"
            /\ UNCHANGED <<cached, POI, persistentPOI, hist>>
    /\ UNCHANGED <<pickleFile, chunks, processes, i, results, q, asyncresults,
                   pool, closed, chunkmap, decided, rendered>>

\* _render_chunks_async(chunks, processes) is entered
Call(p) ==
    /\ pc = "idle"
    /\ chunkmap[p] = {}
    /\ processes' = p
    /\ results' = << >>
    /\ q' = << >>
    /\ i' = 0
    /\ asyncresults' = << >>
    /\ pool' = << >>
    /\ closed' = FALSE
    /\ decided' = << >>
    /\ rendered' = << >>
    /\ pc' = IF p = 1 THEN "inline_body" ELSE "submit"
    /\ UNCHANGED <<pickleFile, cached, chunks, POI, persistentPOI, chunkmap, hist>>

\* a poll that applies the head of the queue and leaves it there
poll_peek ==
    IF q = << >>
    THEN UNCHANGED <<q, POI, persistentPOI, hist>>
    ELSE LET item == Head(q)
             before == [POI |-> POI, persistent |-> persistentPOI]
             after == apply_item(item, before)
         IN /\ q' = q
            /\ POI' = after.POI
            /\ persistentPOI' = after.persistent
            /\ hist' = Append(hist, [item |-> item, before |-> before,
                                     after |-> after])

\* a poll that takes the message put last
poll_lifo ==
    IF q = << >>
    THEN UNCHANGED <<q, POI, persistentPOI, hist>>
    ELSE LET item == q[Len(q)]
             before == [POI |-> POI, persistent |-> persistentPOI]
             after == apply_item(item, before)
         IN /\ q' = SubSeq(q, 1, Len(q) - 1)
            /\ POI' = after.POI
            /\ persistentPOI' = after.persistent
            /\ hist' = Append(hist, [item |-> item, before |-> before,
                                     after |-> after])

\* q.get(block=False) and the application of the item, or Queue.Empty
poll ==
    IF q = << >>
    THEN UNCHANGED <<q, POI, persistentPOI, hist>>
    ELSE LET item == Head(q)
             before == [POI |-> POI, persistent |-> persistentPOI]
             after == apply_item(item, before)
         IN /\ q' = Tail(q)
            /\ POI' = after.POI
            /\ persistentPOI' = after.persistent
            /\ hist' = Append(hist, [item |-> item, before |-> before,
                                     after |-> after])

\* an inline step that renders a missed chunk a second time
InlineBody_twice ==
    /\ pc = "inline_body"
    /\ LET col == chunks[i + 1][1]
           row == chunks[i + 1][2]
           chunkXY == chunks[i + 1][3]
           oldimg == find_oldimage(chunkXY, cached)
           hit == check_cache(chunkXY, oldimg)
           result == IF hit THEN oldimg[2] ELSE JobOut(chunkXY)
       IN /\ decided' = Append(decided, chunkXY)
          /\ rendered' = IF hit THEN rendered
                         ELSE rendered \o <<chunkXY, chunkXY>>
          /\ q' = IF hit THEN q ELSE q \o Emits(chunkXY) \o Emits(chunkXY)
          /\ results' = IF result # None
                        THEN dict_set(results, <<col, row>>, result)
                        ELSE results
    /\ IF i > 0
       THEN pc' = "inline_poll" /\ i' = i
       ELSE /\ i' = i + 1
            /\ pc' = IF i + 1 < Len(chunks) THEN "inline_body" ELSE "return"
    /\ UNCHANGED <<pickleFile, cached, chunks, processes, POI, persistentPOI,
                   asyncresults, pool, closed, chunkmap, hist>>

\* an inline step that enters the image it rendered in the cache index
InlineBody_reindex ==
    /\ pc = "inline_body"
    /\ LET col == chunks[i + 1][1]
           row == chunks[i + 1][2]
           chunkXY == chunks[i + 1][3]
           oldimg == find_oldimage(chunkXY, cached)
           hit == check_cache(chunkXY, oldimg)
           result == IF hit THEN oldimg[2] ELSE JobOut(chunkXY)
           raised == ~hit /\ Raises(chunkXY)
       IN /\ decided' = Append(decided, chunkXY)
          /\ rendered' = IF hit THEN rendered ELSE Append(rendered, chunkXY)
          /\ q' = IF hit THEN q ELSE q \o Emits(chunkXY)
          /\ cached' = IF hit \/ result = None THEN cached
                       ELSE dict_set(cached, chunkXY, result)
          /\ results' = IF result # None /\ ~raised
                        THEN dict_set(results, <<col, row>>, result)
                        ELSE results
          /\ IF raised
             THEN pc' = "raised" /\ i' = i
             ELSE IF i > 0
             THEN pc' = "inline_poll" /\ i' = i
             ELSE /\ i' = i + 1
                  /\ pc' = IF i + 1 < Len(chunks) THEN "inline_body"
                           ELSE "return"
    /\ UNCHANGED <<pickleFile, chunks, processes, POI, persistentPOI, asyncresults,
                   pool, closed, chunkmap, hist>>

\* an inline step that is followed by a poll after the first chunk too
InlineBody_pollfirst ==
    /\ pc = "inline_body"
    /\ LET col == chunks[i + 1][1]
           row == chunks[i + 1][2]
           chunkXY == chunks[i + 1][3]
           oldimg == find_oldimage(chunkXY, cached)
           hit == check_cache(chunkXY, oldimg)
           result == IF hit THEN oldimg[2] ELSE JobOut(chunkXY)
           raised == ~hit /\ Raises(chunkXY)
       IN /\ decided' = Append(decided, chunkXY)
          /\ rendered' = IF hit THEN rendered ELSE Append(rendered, chunkXY)
          /\ q' = IF hit THEN q ELSE q \o Emits(chunkXY)
          /\ results' = IF result # None /\ ~raised
                        THEN dict_set(results, <<col, row>>, result)
                        ELSE results
          /\ IF raised
             THEN pc' = "raised" /\ i' = i
             ELSE IF i >= 0
             THEN pc' = "inline_poll" /\ i' = i
             ELSE /\ i' = i + 1
                  /\ pc' = IF i + 1 < Len(chunks) THEN "inline_body"
                           ELSE "return"
    /\ UNCHANGED <<pickleFile, cached, chunks, processes, POI, persistentPOI, asyncresults,
                   pool, closed, chunkmap, hist>>

\* inline: one chunk is looked up and, on a miss, rendered synchronously;
\* an error of render_and_save leaves the function
InlineBody ==
    /\ pc = "inline_body"
    /\ LET col == chunks[i + 1][1]
           row == chunks[i + 1][2]
           chunkXY == chunks[i + 1][3]
           oldimg == find_oldimage(chunkXY, cached)
           hit == check_cache(chunkXY, oldimg)
           result == IF hit THEN oldimg[2] ELSE JobOut(chunkXY)
           raised == ~hit /\ Raises(chunkXY)
       IN /\ decided' = Append(decided, chunkXY)
          /\ rendered' = IF hit THEN rendered ELSE Append(rendered, chunkXY)
          /\ q' = IF hit THEN q ELSE q \o Emits(chunkXY)
          /\ results' = IF result # None /\ ~raised
                        THEN dict_set(results, <<col, row>>, result)
                        ELSE results
          /\ IF raised
             THEN pc' = "raised" /\ i' = i
             ELSE IF i > 0
             THEN pc' = "inline_poll" /\ i' = i
             ELSE /\ i' = i + 1
                  /\ pc' = IF i + 1 < Len(chunks) THEN "inline_body"
                           ELSE "return"
    /\ UNCHANGED <<pickleFile, cached, chunks, processes, POI, persistentPOI, asyncresults,
                   pool, closed, chunkmap, hist>>

\* inline: the poll after every chunk but the first
InlinePoll ==
    /\ pc = "inline_poll"
    /\ poll
    /\ i' = i + 1
    /\ pc' = IF i + 1 < Len(chunks) THEN "inline_body" ELSE "return"
    /\ UNCHANGED <<pickleFile, cached, chunks, processes, results, asyncresults, pool,
                   closed, chunkmap, decided, rendered>>

\* a submission loop without the cache short-circuit
Submit_always ==
    /\ pc = "submit"
    /\ LET col == chunks[i + 1][1]
           row == chunks[i + 1][2]
           chunkXY == chunks[i + 1][3]
       IN /\ decided' = Append(decided, chunkXY)
          /\ pool' = Append(pool, [chunkXY |-> chunkXY,
                state |-> "queued", nput |-> 0, ret |-> None])
          /\ asyncresults' = Append(asyncresults,
                [col |-> col, row |-> row, fake |-> FALSE,
                 string |-> None, job |-> Len(pool) + 1])
    /\ i' = i + 1
    /\ pc' = IF i + 1 < Len(chunks) THEN "submit" ELSE "close"
    /\ UNCHANGED <<pickleFile, cached, chunks, processes, results, q, POI,
                   persistentPOI, closed, chunkmap, rendered, hist>>

\* pooled: one chunk is looked up and, on a miss, submitted to the pool
Submit ==
    /\ pc = "submit"
    /\ LET col == chunks[i + 1][1]
           row == chunks[i + 1][2]
           chunkXY == chunks[i + 1][3]
           oldimg == find_oldimage(chunkXY, cached)
           hit == check_cache(chunkXY, oldimg)
       IN /\ decided' = Append(decided, chunkXY)
          /\ IF hit
             THEN /\ asyncresults' = Append(asyncresults,
                        [col |-> col, row |-> row, fake |-> TRUE,
                         string |-> oldimg[2], job |-> 0])
                  /\ pool' = pool
             ELSE /\ pool' = Append(pool, [chunkXY |-> chunkXY,
                        state |-> "queued", nput |-> 0, ret |-> None])
                  /\ asyncresults' = Append(asyncresults,
                        [col |-> col, row |-> row, fake |-> FALSE,
                         string |-> None, job |-> Len(pool) + 1])
    /\ i' = i + 1
    /\ pc' = IF i + 1 < Len(chunks) THEN "submit" ELSE "close"
    /\ UNCHANGED <<pickleFile, cached, chunks, processes, results, q, POI, persistentPOI,
                   closed, chunkmap, rendered, hist>>

\* a pool that is closed before the submission loop has started
Close_first ==
    /\ pc = "submit"
    /\ i = 0
    /\ ~closed
    /\ closed' = TRUE
    /\ UNCHANGED <<pickleFile, cached, chunks, processes, pc, i, results, q, POI,
                   persistentPOI, asyncresults, pool, chunkmap, decided,
                   rendered, hist>>

\* pooled: pool.close()
Close ==
    /\ pc = "close"
    /\ closed' = TRUE
    /\ i' = 0
    /\ pc' = "get"
    /\ UNCHANGED <<pickleFile, cached, chunks, processes, results, q, POI, persistentPOI,
                   asyncresults, pool, chunkmap, decided, rendered, hist>>

\* a collection that reads the handle without waiting for the job
Get_nowait ==
    /\ pc = "get"
    /\ LET r == asyncresults[i + 1]
       IN results' = dict_set(results, <<r.col, r.row>>,
                         IF r.fake THEN r.string ELSE pool[r.job].ret)
    /\ pc' = "poll"
    /\ UNCHANGED <<pickleFile, cached, chunks, processes, i, q, POI,
                   persistentPOI, asyncresults, pool, closed, chunkmap,
                   decided, rendered, hist>>

\* a collection that takes a failed job's result as None and goes on
Get_swallow ==
    /\ pc = "get"
    /\ LET r == asyncresults[i + 1]
       IN /\ IF r.fake THEN TRUE ELSE pool[r.job].state \in {"done", "failed"}
          /\ results' = dict_set(results, <<r.col, r.row>>,
                            IF r.fake THEN r.string ELSE pool[r.job].ret)
    /\ pc' = "poll"
    /\ UNCHANGED <<pickleFile, cached, chunks, processes, i, q, POI,
                   persistentPOI, asyncresults, pool, closed, chunkmap,
                   decided, rendered, hist>>

\* pooled: results[(col, row)] = result.get(), which waits for the job and
\* raises the job's error again
Get ==
    /\ pc = "get"
    /\ LET r == asyncresults[i + 1]
           failed == IF r.fake THEN FALSE ELSE pool[r.job].state = "failed"
       IN /\ IF r.fake THEN TRUE ELSE pool[r.job].state \in {"done", "failed"}
          /\ results' = IF failed THEN results
                        ELSE dict_set(results, <<r.col, r.row>>,
                                 IF r.fake THEN r.string ELSE pool[r.job].ret)
          /\ pc' = IF failed THEN "raised" ELSE "poll"
    /\ UNCHANGED <<pickleFile, cached, chunks, processes, i, q, POI, persistentPOI,
                   asyncresults, pool, closed, chunkmap, decided, rendered,
                   hist>>

\* pooled: the poll after every collected result
PooledPoll ==
    /\ pc = "poll"
    /\ poll
    /\ i' = i + 1
    /\ pc' = IF i + 1 < Len(asyncresults) THEN "get" ELSE "join"
    /\ UNCHANGED <<pickleFile, cached, chunks, processes, results, asyncresults, pool,
                   closed, chunkmap, decided, rendered>>

\* pooled: pool.join() waits for the workers to finish
Join ==
    /\ pc = "join"
    /\ \A j \in 1..Len(pool) : pool[j].state \in {"done", "failed"}
    /\ pc' = "return"
    /\ UNCHANGED <<pickleFile, cached, chunks, processes, i, results, q, POI,
                   persistentPOI, asyncresults, pool, closed, chunkmap,
                   decided, rendered, hist>>

\* return results
Return ==
    /\ pc = "return"
    /\ chunkmap' = [chunkmap EXCEPT ![processes] = {results}]
    /\ pc' = "finished"
    /\ UNCHANGED <<pickleFile, cached, chunks, processes, i, results, q, POI,
                   persistentPOI, asyncresults, pool, closed, decided,
                   rendered, hist>>

\* ------------------------------------------------------------------------
\* The pool's workers: chunk.render_and_save run as a task
\* ------------------------------------------------------------------------

Running == {j \in 1..Len(pool) : pool[j].state = "running"}

\* a free worker takes the oldest queued task
JobStart(j) ==
    /\ pool[j].state = "queued"
    /\ \A k \in 1..(j - 1) : pool[k].state # "queued"
    /\ Cardinality(Running) < processes
    /\ pool' = [pool EXCEPT ![j].state = "running"]
    /\ rendered' = Append(rendered, pool[j].chunkXY)
    /\ UNCHANGED <<pickleFile, cached, chunks, processes, pc, i, results, q, POI,
                   persistentPOI, asyncresults, closed, chunkmap, decided,
                   hist>>

\* the job puts its next message on the queue
JobPut(j) ==
    /\ pool[j].state = "running"
    /\ pool[j].nput < Len(Emits(pool[j].chunkXY))
    /\ q' = Append(q, Emits(pool[j].chunkXY)[pool[j].nput + 1])
    /\ pool' = [pool EXCEPT ![j].nput = @ + 1]
    /\ UNCHANGED <<pickleFile, cached, chunks, processes, pc, i, results, POI,
                   persistentPOI, asyncresults, closed, chunkmap, decided,
                   rendered, hist>>

\* the job returns its image path (or None)
JobReturn(j) ==
    /\ pool[j].state = "running"
    /\ pool[j].nput = Len(Emits(pool[j].chunkXY))
    /\ ~Raises(pool[j].chunkXY)
    /\ pool' = [pool EXCEPT ![j].state = "done",
                            ![j].ret = JobOut(pool[j].chunkXY)]
    /\ UNCHANGED <<pickleFile, cached, chunks, processes, pc, i, results, q, POI,
                   persistentPOI, asyncresults, closed, chunkmap, decided,
                   rendered, hist>>

\* the job raises an error, which the pool keeps for result.get()
JobRaise(j) ==
    /\ pool[j].state = "running"
    /\ pool[j].nput = Len(Emits(pool[j].chunkXY))
    /\ Raises(pool[j].chunkXY)
    /\ pool' = [pool EXCEPT ![j].state = "failed"]
    /\ UNCHANGED <<pickleFile, cached, chunks, processes, pc, i, results, q, POI,
                   persistentPOI, asyncresults, closed, chunkmap, decided,
                   rendered, hist>>

Worker ==
    \E j \in 1..Len(pool) :
        JobStart(j) \/ JobPut(j) \/ JobReturn(j) \/ JobRaise(j)

\* the steps of _render_chunks_async
Run ==
    \/ \E p \in Degrees : Call(p)
    \/ InlineBody
    \/ InlinePoll
    \/ Submit
    \/ Close
    \/ Get
    \/ PooledPoll
    \/ Join
    \/ Return

Orchestrator == Construct \/ Run

Next == (Orchestrator \/ Worker) /\ UNCHANGED <<scan_vars, go_vars, spawn_vars>>

Spec == Init /\ [][Next]_vars

\* ------------------------------------------------------------------------
\* Several WorldRenderers in one process, each with its cache directory
\* ------------------------------------------------------------------------

MaxCacheChunks == 2

CacheDirs == {CacheDir, OtherDir}

FilesOf(dir) == IF dir = CacheDir THEN CacheDirFiles ELSE OtherDirFiles

\* WorldRenderer(worlddir, cachedir): as Construct, for any cache directory;
\* the other directory holds no overviewer.dat
ConstructAt(dir) ==
    /\ pc \in {"new", "finished"}
    /\ \E p \in Degrees : chunkmap[p] = {}
    /\ cachedir' = dir
    /\ IF version = {SupportedVersion}
       THEN /\ cached' = build_cached(cached, FilesOf(dir))
            /\ POI' = << >>
            /\ persistentPOI' = IF dir # CacheDir \/ pickleFile = {} THEN << >>
                                ELSE CHOOSE s \in pickleFile : TRUE
            /\ hist' = << >>
            /\ pc' = "idle"
       ELSE /\ pc' = "exit"
            /\ UNCHANGED <<cached, POI, persistentPOI, hist>>
    /\ UNCHANGED <<pickleFile, chunks, processes, i, results, q, asyncresults,
                   pool, closed, chunkmap, decided, rendered>>

CacheInit ==
    /\ pickleFile = {}
    /\ cached = << >>
    /\ \E raw \in SeqsUpTo(ChunkCoords, MaxCacheChunks) \ {<< >>} :
           chunks = convert_coords(raw).chunks_translated
    /\ processes = 1
    /\ pc = "new"
    /\ i = 0
    /\ results = << >>
    /\ q = << >>
    /\ POI = << >>
    /\ persistentPOI = << >>
    /\ asyncresults = << >>
    /\ pool = << >>
    /\ closed = FALSE
    /\ chunkmap = [p \in Degrees |-> {}]
    /\ decided = << >>
    /\ rendered = << >>
    /\ hist = << >>
    /\ walk = << >>
    /\ scan_pc = "off"
    /\ regions = << >>
    /\ all_chunks = << >>
    /\ version = {SupportedVersion}
    /\ bbox = None
    /\ cachedir = CacheDir
    /\ SpawnOff

CacheNext ==
    \/ /\ \E dir \in CacheDirs : ConstructAt(dir)
       /\ UNCHANGED <<scan_vars, version, bbox, spawn_vars>>
    \/ /\ Run \/ Worker
       /\ UNCHANGED <<scan_vars, go_vars, spawn_vars>>

SpecCache == CacheInit /\ [][CacheNext]_vars

\* ------------------------------------------------------------------------
\* The scan of the region directory, on its own
\* ------------------------------------------------------------------------

dispatch_vars == <<pickleFile, cached, chunks, processes, pc, i, results, q,
                   POI, persistentPOI, asyncresults, pool, closed, chunkmap,
                   decided, rendered, hist>>

ChunklistInit ==
    /\ walk \in Walks
    /\ scan_pc = "start"
    /\ regions = << >>
    /\ all_chunks = << >>
    /\ pickleFile = {}
    /\ cached = << >>
    /\ chunks = << >>
    /\ processes = 1
    /\ pc = "off"
    /\ i = 0
    /\ results = << >>
    /\ q = << >>
    /\ POI = << >>
    /\ persistentPOI = << >>
    /\ asyncresults = << >>
    /\ pool = << >>
    /\ closed = FALSE
    /\ chunkmap = [p \in Degrees |-> {}]
    /\ decided = << >>
    /\ rendered = << >>
    /\ hist = << >>
    /\ version = {SupportedVersion}
    /\ bbox = None
    /\ cachedir = CacheDir
    /\ SpawnOff

\* _find_regionfiles returns its list, or int() raises ValueError
FindRegionfiles ==
    /\ scan_pc = "start"
    /\ LET found == find_regionfiles(walk, [raised |-> FALSE,
                                            all_chunks |-> << >>])
       IN /\ regions' = found.all_chunks
          /\ scan_pc' = IF found.raised THEN "raised" ELSE "scanned"
    /\ UNCHANGED <<walk, all_chunks, dispatch_vars>>

\* the rest of _get_chunklist: the regions are expanded, and the process
\* exits when there is no chunk
GetChunklist ==
    /\ scan_pc = "scanned"
    /\ all_chunks' = get_chunklist(regions)
    /\ scan_pc' = IF get_chunklist(regions) = << >> THEN "exit" ELSE "listed"
    /\ UNCHANGED <<walk, regions, dispatch_vars>>

ChunklistNext ==
    (FindRegionfiles \/ GetChunklist) /\ UNCHANGED <<go_vars, spawn_vars>>

SpecChunklist == ChunklistInit /\ [][ChunklistNext]_vars

\* ------------------------------------------------------------------------
\* go() between the chunk list and the dispatch, on small chunk lists
\* ------------------------------------------------------------------------

MaxRaw == 3

\* raw chunks (chunkx, chunky, regionfile) on both sides of the origin
RawChunks == {<<x, y, "r.mcr">> : x \in -1..1, y \in -1..1}

\* go(): mincol, maxcol, minrow, maxrow, chunks = _convert_coords(raw_chunks)
GoConvert ==
    /\ scan_pc = "listed"
    /\ LET converted == convert_coords(all_chunks)
       IN /\ bbox' = <<converted.mincol, converted.maxcol,
                       converted.minrow, converted.maxrow>>
          /\ chunks' = converted.chunks_translated
    /\ scan_pc' = "converted"
    /\ UNCHANGED <<walk, regions, all_chunks, version, cachedir, pickleFile,
                   cached, processes, pc, i, results, q, POI, persistentPOI,
                   asyncresults, pool, closed, chunkmap, decided, rendered,
                   hist>>

\* _get_chunklist has returned a list of at most MaxRaw chunks
ConvertInit ==
    /\ all_chunks \in SeqsUpTo(RawChunks, MaxRaw) \ {<< >>}
    /\ scan_pc = "listed"
    /\ walk = << >>
    /\ regions = << >>
    /\ pickleFile = {}
    /\ cached = << >>
    /\ chunks = << >>
    /\ processes = 1
    /\ pc = "idle"
    /\ i = 0
    /\ results = << >>
    /\ q = << >>
    /\ POI = << >>
    /\ persistentPOI = << >>
    /\ asyncresults = << >>
    /\ pool = << >>
    /\ closed = FALSE
    /\ chunkmap = [p \in Degrees |-> {}]
    /\ decided = << >>
    /\ rendered = << >>
    /\ hist = << >>
    /\ version = {SupportedVersion}
    /\ bbox = None
    /\ cachedir = CacheDir
    /\ SpawnOff

ConvertNext == GoConvert /\ UNCHANGED spawn_vars

SpecConvert == ConvertInit /\ [][ConvertNext]_vars

\* ------------------------------------------------------------------------
\* Construction and go() up to the entry of _render_chunks_async
\* ------------------------------------------------------------------------

\* level.dat without a version, with the supported one, with another one
Versions == {{}, {SupportedVersion}, {SupportedVersion + 1}}

GoInit ==
    /\ version \in Versions
    /\ walk \in Walks
    /\ scan_pc = "start"
    /\ regions = << >>
    /\ all_chunks = << >>
    /\ pickleFile = {}
    /\ cached = << >>
    /\ chunks = << >>
    /\ processes = 1
    /\ pc = "new"
    /\ i = 0
    /\ results = << >>
    /\ q = << >>
    /\ POI = << >>
    /\ persistentPOI = << >>
    /\ asyncresults = << >>
    /\ pool = << >>
    /\ closed = FALSE
    /\ chunkmap = [p \in Degrees |-> {}]
    /\ decided = << >>
    /\ rendered = << >>
    /\ hist = << >>
    /\ bbox = None
    /\ cachedir = CacheDir
    /\ SpawnOff

\* go() of a constructed WorldRenderer calls _get_chunklist
GoScan ==
    /\ pc = "idle"
    /\ FindRegionfiles

\* go(): self.chunkmap = self._render_chunks_async(chunks, procs)
GoRender(p) ==
    /\ scan_pc = "converted"
    /\ Call(p)
    /\ UNCHANGED scan_vars

GoNext ==
    \/ Construct /\ UNCHANGED <<scan_vars, go_vars, spawn_vars>>
    \/ GoScan /\ UNCHANGED <<go_vars, spawn_vars>>
    \/ GetChunklist /\ UNCHANGED <<go_vars, spawn_vars>>
    \/ GoConvert /\ UNCHANGED spawn_vars
    \/ \E p \in Degrees : GoRender(p) /\ UNCHANGED <<go_vars, spawn_vars>>

SpecGo == GoInit /\ [][GoNext]_vars

\* ------------------------------------------------------------------------
\* findTrueSpawn, on its own
\* ------------------------------------------------------------------------

\* the height of a chunk: blockArray is reshaped to (16, 16, 128)
Height == 128

\* block columns: solid below a floor and air from it upward (a floor at
\* Height is a column solid at every height), or solid with one air block
AirFrom(h) == [y \in 0..(Height - 1) |-> IF y < h THEN 1 ELSE 0]

Pocket(a) == [y \in 0..(Height - 1) |-> IF y = a THEN 0 ELSE 1]

BlockColumns ==
    {AirFrom(h) : h \in {0, 10, 64, Height - 1, Height}}
    \cup {Pocket(a) : a \in {10, Height - 1}}

\* the SpawnY values of level.dat: inside the chunk, on top of it, below it
SpawnYs == {-1, 0, 9, 10, 11, 64, Height - 1, Height}

\* numpy indexing along an axis of length Height: a negative index counts
\* from the end, an index out of range raises IndexError (no index here)
numpy_index(y) ==
    IF 0 <= y /\ y < Height THEN <<y>>
    ELSE IF -Height <= y /\ y < 0 THEN <<y + Height>>
    ELSE << >>

\* the entry findTrueSpawn appends to self.POI (x, z left out)
SpawnEntry(y) == [y |-> y, msg |-> "Spawn", type |-> "spawn", chunk |-> <<0, 0>>]

\* level.dat and the spawn chunk are loaded, self.POI is what the run left
SpawnInit ==
    /\ SpawnY \in SpawnYs
    /\ blockArray \in BlockColumns
    /\ spawnY = SpawnY
    /\ reads = {}
    /\ spawn_pc = "test"
    /\ walk = << >>
    /\ scan_pc = "off"
    /\ regions = << >>
    /\ all_chunks = << >>
    /\ pickleFile = {}
    /\ cached = << >>
    /\ chunks = << >>
    /\ processes = 1
    /\ pc = "finished"
    /\ i = 0
    /\ results = << >>
    /\ q = << >>
    /\ POI = << >>
    /\ persistentPOI = << >>
    /\ asyncresults = << >>
    /\ pool = << >>
    /\ closed = FALSE
    /\ chunkmap = [p \in Degrees |-> {}]
    /\ decided = << >>
    /\ rendered = << >>
    /\ hist = << >>
    /\ version = {SupportedVersion}
    /\ bbox = None
    /\ cachedir = CacheDir

\* while (blockArray[inChunkX, inChunkZ, spawnY] != 0)
SpawnTest ==
    /\ spawn_pc = "test"
    /\ LET index == numpy_index(spawnY)
       IN IF index = << >>
          THEN /\ spawn_pc' = "raised"
               /\ reads' = reads
          ELSE /\ reads' = reads \cup {index[1]}
               /\ spawn_pc' = IF blockArray[index[1]] # 0 THEN "inc"
                              ELSE "append"
    /\ UNCHANGED <<SpawnY, blockArray, spawnY, POI>>

\* spawnY += 1; if spawnY == 128: break
SpawnInc ==
    /\ spawn_pc = "inc"
    /\ spawnY' = spawnY + 1
    /\ spawn_pc' = IF spawnY + 1 = Height THEN "append" ELSE "test"
    /\ UNCHANGED <<SpawnY, blockArray, reads, POI>>

\* self.POI.append(dict(x=spawnX, y=spawnY, z=spawnZ, ...))
SpawnAppend ==
    /\ spawn_pc = "append"
    /\ POI' = Append(POI, SpawnEntry(spawnY))
    /\ spawn_pc' = "done"
    /\ UNCHANGED <<SpawnY, blockArray, spawnY, reads>>

SpawnNext ==
    /\ SpawnTest \/ SpawnInc \/ SpawnAppend
    /\ UNCHANGED <<scan_vars, go_vars, pickleFile, cached, chunks, processes,
                   pc, i, results, q, persistentPOI, asyncresults, pool,
                   closed, chunkmap, decided, rendered, hist>>

SpecSpawn == SpawnInit /\ [][SpawnNext]_vars

\* ------------------------------------------------------------------------
\* Properties of the dispatcher
\* ------------------------------------------------------------------------

\* the (x, y) of every entry of a list of (x, y, file)
Coordinates(seq) == [n \in 1..Len(seq) |-> <<seq[n][1], seq[n][2]>>]

NoDuplicate(seq) == Cardinality(Range(seq)) = Len(seq)

Count(seq, x) == Cardinality({k \in 1..Len(seq) : seq[k] = x})

RECURSIVE PutCount(_)
PutCount(seq) ==
    IF seq = << >> THEN 0 ELSE Len(Emits(Head(seq))) + PutCount(Tail(seq))

Returning == pc \in {"return", "finished"}

InRun == pc \notin {"new", "idle", "finished"}

\* the chunks whose cache check succeeds
IsHitChunk(c) == check_cache(c, find_oldimage(c, cached))

IsHit(k) == IsHitChunk(chunks[k][3])

\* C1: when a run of _render_chunks_async returns, every message the render
\* jobs put on the queue has been taken off and applied: the queue is empty
\* and as many messages were applied as were put.
C1_AllMessagesApplied ==
    pc = "return" => (q = << >> /\ Len(hist) = PutCount(rendered))

\* C2: a chunk whose cache check succeeds is never passed to render_and_save
\* in the run, and the returned map holds the cached image path for it, in
\* inline and in pooled mode.
C2_CacheHitNotRendered ==
    \A k \in 1..Len(chunks) :
        (pc # "new" /\ IsHit(k)) =>
            /\ chunks[k][3] \notin Range(rendered)
            /\ Returning =>
                 /\ <<chunks[k][1], chunks[k][2]>> \in DOMAIN results
                 /\ results[<<chunks[k][1], chunks[k][2]>>] = cached[chunks[k][3]]

C2_Witness ==
    /\ pc = "finished"
    /\ processes > 1
    /\ chunkmap[1] # {}
    /\ \E k \in 1..Len(chunks) : IsHit(k)
    /\ rendered # << >>

\* C3: the run with processes = 1 and the run with processes > 1 over the
\* same chunk list return the same result map.
C3_SameMapAtEveryDegree ==
    \A p1 \in Degrees, p2 \in Degrees :
        (chunkmap[p1] # {} /\ chunkmap[p2] # {}) => chunkmap[p1] = chunkmap[p2]

\* C4: a ghost chunk (its job returns None) has no key in the returned map:
\* every key of a returned map is mapped to an image path.
C4_NoKeyForGhost ==
    \A p \in Degrees : \A m \in chunkmap[p] : \A key \in DOMAIN m : m[key] # None

\* the map of the pooled run as a function of the chunk list alone
PooledMap ==
    [key \in {<<chunks[k][1], chunks[k][2]>> : k \in 1..Len(chunks)} |->
        LET k == CHOOSE n \in 1..Len(chunks) :
                     <<chunks[n][1], chunks[n][2]>> = key
        IN IF IsHit(k) THEN cached[chunks[k][3]] ELSE JobOut(chunks[k][3])]

\* C5: in pooled mode the returned map is the same whatever the order in
\* which the jobs complete: it is the map fixed by the chunk list.
C5_MapIndependentOfCompletionOrder ==
    (pc = "return" /\ processes > 1) => results = PooledMap

\* a pooled run returns in which the job submitted second put its message
\* on the queue before the job submitted first, with another result
C5_Witness ==
    /\ pc = "return"
    /\ processes > 1
    /\ Len(pool) >= 2
    /\ pool[1].ret # pool[2].ret
    /\ Len(hist) >= 2
    /\ hist[1].item[1] = "newpoi"
    /\ hist[1].item[2].chunk = pool[2].chunkXY
    /\ hist[2].item = removePOI(pool[1].chunkXY)

\* the places of hist where NewPOI(e) is directly followed by
\* RemovePOI(e.chunk)
NewThenRemove ==
    {n \in 1..(Len(hist) - 1) :
        /\ hist[n].item[1] = "newpoi"
        /\ hist[n + 1].item[1] = "removePOI"
        /\ hist[n + 1].item[2] = hist[n].item[2].chunk}

\* C6: after NewPOI(e) and then RemovePOI(e.chunk) were applied, the live POI
\* sequence is what it was before NewPOI(e) was applied.
C6_NewThenRemoveRestores ==
    \A n \in NewThenRemove : hist[n + 1].after.POI = hist[n].before.POI

\* C6 (amended): after NewPOI(e) and then RemovePOI(e.chunk) were applied,
\* self.POI is what it was before with e appended (e stays in it), and the
\* persistent POI sequence holds no entry of e's chunk.
C6_NewThenRemoveKeepsEntry ==
    \A n \in NewThenRemove :
        /\ hist[n + 1].after.POI = Append(hist[n].before.POI, hist[n].item[2])
        /\ \A x \in Range(hist[n + 1].after.persistent) :
               x.chunk # hist[n].item[2].chunk

C6_Witness ==
    \E n \in NewThenRemove :
        \E x \in Range(hist[n].before.persistent) :
            x.chunk = hist[n].item[2].chunk

\* the entries of seq whose chunk is not k, in their order, defined by
\* position
Kept(seq, k) == {n \in 1..Len(seq) : seq[n].chunk # k}

IsRemovalOf(after, before, k) ==
    /\ Len(after) = Cardinality(Kept(before, k))
    /\ \A m \in 1..Len(after) :
           after[m] = before[CHOOSE n \in Kept(before, k) :
                                Cardinality({x \in Kept(before, k) : x <= n}) = m]

\* C7: applying RemovePOI(k) removes every entry whose chunk is k and no
\* other, keeps the order of the rest, and applying it once more changes
\* nothing.
C7_RemoveFiltersAndIsIdempotent ==
    \A n \in 1..Len(hist) :
        hist[n].item[1] = "removePOI" =>
            /\ IsRemovalOf(hist[n].after.persistent, hist[n].before.persistent,
                           hist[n].item[2])
            /\ apply_item(hist[n].item, hist[n].after) = hist[n].after
            /\ \A m \in 1..(n - 1) :
                   (hist[m].item = hist[n].item
                    /\ \A l \in (m + 1)..(n - 1) : hist[l].item[1] = "newpoi")
                       => hist[n].after.persistent = hist[n].before.persistent

\* a removal that dropped two entries and kept one between them, and a
\* second removal for the same chunk
C7_Witness ==
    \E n \in 1..Len(hist), m \in 1..Len(hist) :
        /\ m < n
        /\ hist[m].item[1] = "removePOI"
        /\ hist[n].item = hist[m].item
        /\ Len(hist[m].before.persistent) = 3
        /\ Len(hist[m].after.persistent) = 1

\* C8: in one run every chunk coordinate of the list gets exactly one cache
\* decision and at most one invocation of render_and_save.
C8_EachCoordinateOnce ==
    pc = "return" =>
        \A k \in 1..Len(chunks) :
            /\ Count(decided, chunks[k][3]) = 1
            /\ Count(rendered, chunks[k][3]) <= 1

\* C8 (amended): in one run every entry of the chunk list gets exactly one
\* cache decision, in list order, and at most one invocation of
\* render_and_save; a chunk coordinate is decided once and rendered at most
\* once when the list holds it once.
C8_EachEntryOnce ==
    pc = "return" =>
        /\ decided = [k \in 1..Len(chunks) |-> chunks[k][3]]
        /\ \A c \in ChunkCoords : Count(rendered, c) <= Count(decided, c)
        /\ \A c \in ChunkCoords : IsHitChunk(c) => Count(rendered, c) = 0
        /\ \A k \in 1..Len(chunks) :
               Count(decided, chunks[k][3]) = 1 =>
                   Count(rendered, chunks[k][3]) <= 1

\* a run over three different chunks, one a cache hit, two rendered
C8_Witness ==
    /\ pc = "return"
    /\ Len(chunks) = 3
    /\ NoDuplicate(decided)
    /\ Len(rendered) = 2

\* C10: during a run self.POI and the persistent POI sequence change only in
\* a poll step of the orchestrating thread, in which a message is taken off
\* the queue; no step of a render job changes them.
C10_OnlyThePollMutates ==
    [][(InRun /\ (POI' # POI \/ persistentPOI' # persistentPOI)) =>
          /\ pc \in {"inline_poll", "poll"}
          /\ q # << >>
          /\ q' = Tail(q)
          /\ pool' = pool
          /\ <<POI', persistentPOI'>> =
                 <<apply_item(Head(q), [POI |-> POI,
                                        persistent |-> persistentPOI]).POI,
                   apply_item(Head(q), [POI |-> POI,
                                        persistent |-> persistentPOI]).persistent>>
      ]_vars

\* both kinds of message were applied while a job was still running
C10_Witness ==
    /\ InRun
    /\ POI # << >>
    /\ \E n \in 1..Len(hist) : hist[n].after.persistent # hist[n].before.persistent
    /\ \E j \in 1..Len(pool) : pool[j].state = "running"

\* ------------------------------------------------------------------------
\* Properties of the region scanner
\* ------------------------------------------------------------------------

\* C9: the chunk list has exactly 1024 entries for every discovered region
\* and holds no chunk coordinate twice.
C9_ChunklistSizeAndNoDuplicate ==
    scan_pc = "listed" =>
        /\ Len(all_chunks) = RegionChunks * Len(regions)
        /\ NoDuplicate(Coordinates(all_chunks))

\* C9 (amended): the chunk list has exactly 1024 entries for every
\* discovered region, and it holds no chunk coordinate twice when no two
\* discovered region files have the same region coordinates.
C9_ChunklistSizeAndNoDuplicateRegion ==
    scan_pc = "listed" =>
        /\ Len(all_chunks) = RegionChunks * Len(regions)
        /\ NoDuplicate(Coordinates(regions))
               => NoDuplicate(Coordinates(all_chunks))

\* a chunk list of two neighbouring regions
C9_Witness ==
    /\ scan_pc = "listed"
    /\ Len(regions) = 2
    /\ NoDuplicate(Coordinates(regions))
    /\ \E a \in 1..2, b \in 1..2 : regions[a][1] = regions[b][1] + 1

\* ---------------------------------------------------------------------------
\* C11: in pooled mode no job is submitted once the pool is closed: the pool is
\* closed only when every chunk has its handle (a submitted job or a cache-hit
\* handle), and the result map is returned only after the pool was closed and
\* every submitted job has completed.
C11_NoSubmitAfterClose ==
    /\ [](closed => Len(asyncresults) = Len(chunks))
    /\ []((pc = "return" /\ processes > 1) =>
             /\ closed
             /\ \A j \in 1..Len(pool) : pool[j].state = "done")
    /\ [][Len(pool') > Len(pool) => (~closed /\ ~closed')]_vars

C11_Witness ==
    /\ pc = "return"
    /\ processes > 1
    /\ closed
    /\ Len(pool) >= 2
    /\ Len(asyncresults) > Len(pool)

\* ---------------------------------------------------------------------------
\* C12: in pooled mode a render job that raises aborts the run at the first
\* failing job in submission order: the error leaves _render_chunks_async, no
\* result map is returned, no result of a later submission is merged and the
\* failing job is never run a second time.

\* the handles collected before the one at position i + 1
Collected == {<<asyncresults[k].col, asyncresults[k].row>> : k \in 1..i}

HandleFailed(k) ==
    IF asyncresults[k].fake THEN FALSE
    ELSE pool[asyncresults[k].job].state = "failed"

C12_AbortAtFirstFailure ==
    /\ []((pc = "raised" /\ processes > 1) =>
             /\ HandleFailed(i + 1)
             /\ \A k \in 1..i : ~HandleFailed(k)
             /\ DOMAIN results \subseteq Collected
             /\ chunkmap[processes] = {})
    /\ []((Returning /\ processes > 1) =>
             \A j \in 1..Len(pool) : pool[j].state # "failed")
    /\ [](processes > 1 => Len(rendered) <= Len(pool))
    /\ [][(pc = "raised" /\ processes > 1) =>
             /\ pc' = "raised"
             /\ results' = results
             /\ chunkmap' = chunkmap
             /\ Len(pool') = Len(pool)
             /\ \A j \in 1..Len(pool) :
                    pool[j].state = "failed" => pool'[j] = pool[j]]_vars

C12_Witness ==
    /\ pc = "raised"
    /\ processes > 1
    /\ i >= 1
    /\ results # << >>
    /\ \E k \in (i + 2)..Len(asyncresults) :
           /\ ~asyncresults[k].fake
           /\ pool[asyncresults[k].job].state = "done"
           /\ pool[asyncresults[k].job].ret # None

\* ---------------------------------------------------------------------------
\* C13: for every non-empty sequence of chunk coordinates the bounding box of
\* _convert_coords is the minimum and maximum of chunkX + chunkY and of
\* chunkY - chunkX over the whole sequence, and the returned list holds one
\* (col, row, (chunkX, chunkY)) per input element, in input order.
Min(S) == CHOOSE m \in S : \A n \in S : m <= n

Max(S) == CHOOSE m \in S : \A n \in S : m >= n

C13_BoundingBoxIsBruteForce ==
    scan_pc = "converted" =>
        LET cols == {all_chunks[k][1] + all_chunks[k][2] :
                        k \in 1..Len(all_chunks)}
            rows == {all_chunks[k][2] - all_chunks[k][1] :
                        k \in 1..Len(all_chunks)}
        IN /\ bbox = <<Min(cols), Max(cols), Min(rows), Max(rows)>>
           /\ Len(chunks) = Len(all_chunks)
           /\ \A k \in 1..Len(all_chunks) :
                  chunks[k] = <<all_chunks[k][1] + all_chunks[k][2],
                                all_chunks[k][2] - all_chunks[k][1],
                                <<all_chunks[k][1], all_chunks[k][2]>>>>

C13_Witness ==
    /\ scan_pc = "converted"
    /\ Len(all_chunks) = MaxRaw
    /\ bbox[1] < all_chunks[1][1] + all_chunks[1][2]
    /\ all_chunks[1][1] + all_chunks[1][2] < bbox[2]
    /\ bbox[3] < bbox[4]
    /\ bbox[3] < 0

\* ---------------------------------------------------------------------------
\* C14: for every block column and every starting SpawnY, findTrueSpawn ends
\* with the smallest height at or above SpawnY whose block is air, or with the
\* ceiling 128 when there is none below 128; it reads no block at a height of
\* 128 or above and it appends exactly one POI entry, with that height.
Resolved ==
    LET air == {y \in 0..(Height - 1) : y >= SpawnY /\ blockArray[y] = 0}
    IN IF air = {} THEN Height ELSE Min(air)

C14_SpawnResolves ==
    /\ reads \subseteq 0..(Height - 1)
    /\ spawn_pc \in {"raised", "done"} =>
           /\ spawn_pc = "done"
           /\ POI = <<SpawnEntry(Resolved)>>

\* the same for a SpawnY inside the chunk, 0 <= SpawnY < 128
C14_SpawnResolvesInside ==
    /\ reads \subseteq 0..(Height - 1)
    /\ (spawn_pc \in {"raised", "done"} /\ 0 <= SpawnY /\ SpawnY < Height) =>
           /\ spawn_pc = "done"
           /\ POI = <<SpawnEntry(Resolved)>>

C14_Witness ==
    /\ spawn_pc = "done"
    /\ 0 < SpawnY
    /\ SpawnY < Resolved
    /\ Resolved < Height
    /\ POI = <<SpawnEntry(Resolved)>>

\* ---------------------------------------------------------------------------
\* C15: when the version field of the world is absent or is not 19132, or
\* when no region file is discovered, the process stops with a fatal error:
\* _render_chunks_async is never entered, no render job is dispatched and no
\* result map is produced.
Fatal == pc = "exit" \/ scan_pc = "exit"

NothingDispatched ==
    /\ pc \in {"new", "idle", "exit"}
    /\ decided = << >>
    /\ rendered = << >>
    /\ pool = << >>
    /\ \A p \in Degrees : chunkmap[p] = {}

Applied == [n \in 1..Len(hist) |-> hist[n].item]

PutOrder == Applied \o q

IsPrefix(s, t) == Len(s) <= Len(t) /\ SubSeq(t, 1, Len(s)) = s

C16_AppliedInPutOrder ==
    [][InRun =>
          /\ IsPrefix(PutOrder, PutOrder')
          /\ IsPrefix(Applied, Applied')
          /\ Len(Applied') > Len(Applied) =>
                 (q # << >> /\ Applied' = Append(Applied, Head(q)))
      ]_vars

\* pooled: two different messages of two jobs have been applied in put order
\* and a third one is still queued
C16_Witness ==
    /\ InRun
    /\ processes > 1
    /\ Len(hist) >= 2
    /\ hist[1].item # hist[2].item
    /\ hist[1].item[1] = "removePOI"
    /\ q # << >>

\* ---------------------------------------------------------------------------
\* C17: the cache index is fully built, by the construction of the
\* WorldRenderer, before the first cache lookup or render job of a run, and no
\* step of _render_chunks_async or of a render job adds, removes or changes
\* an entry of the index while the run is in progress.
IndexBuilt ==
    \A f \in CacheDirFiles : f[1] \in DOMAIN cached /\ cached[f[1]] = f[2]

C17_IndexBuiltAndFrozen ==
    /\ []((InRun \/ decided # << >> \/ pool # << >>) => IndexBuilt)
    /\ [][InRun => cached' = cached]_vars
    /\ [][cached' # cached => (pc \in {"new", "finished"} /\ pc' = "idle")]_vars

\* a run in which a lookup has hit the index and a job is running
C17_Witness ==
    /\ InRun
    /\ IndexBuilt
    /\ \E k \in 1..Len(decided) : decided[k] \in DOMAIN cached
    /\ \E j \in 1..Len(pool) : pool[j].state = "running"

\* ---------------------------------------------------------------------------
\* C18: each poll takes at most one message off the queue, and a poll of an
\* empty queue changes nothing and does not block; so a run over n chunks
\* applies at most n messages in pooled mode and at most n - 1 in inline mode
\* (none for n = 1), however many messages the jobs have put.
AtPoll == pc \in {"inline_poll", "poll"}

MaxApplied == IF processes = 1 THEN Len(chunks) - 1 ELSE Len(chunks)

C18_AtMostOneMessagePerPoll ==
    /\ []((InRun \/ Returning) => Len(hist) <= MaxApplied)
    /\ [](AtPoll => ENABLED (InlinePoll \/ PooledPoll))
    /\ [][(InRun /\ Len(q') < Len(q)) =>
             /\ AtPoll
             /\ q' = Tail(q)
             /\ Len(hist') = Len(hist) + 1]_vars
    /\ [][(InRun /\ hist' # hist) => (AtPoll /\ Len(hist') = Len(hist) + 1)]_vars
    /\ [][(AtPoll /\ pc' # pc /\ q = << >>) =>
             UNCHANGED <<q, POI, persistentPOI, hist, results, pool>>]_vars

\* a pooled run that has applied one message per chunk and returns with
\* messages still queued
C18_Witness ==
    /\ pc = "return"
    /\ processes > 1
    /\ Len(chunks) >= 2
    /\ Len(hist) = Len(chunks)
    /\ q # << >>

\* ---------------------------------------------------------------------------
\* C19: applying a NewPOI message changes only self.POI and leaves
\* persistentData['POI'] as it is; applying a RemovePOI message changes only
\* persistentData['POI'] and leaves self.POI as it is.
C19_EachMessageChangesOneList ==
    [][(InRun /\ AtPoll /\ pc' # pc /\ q # << >>) =>
          /\ Head(q)[1] = "newpoi" =>
                 /\ persistentPOI' = persistentPOI
                 /\ POI' = Append(POI, Head(q)[2])
          /\ Head(q)[1] = "removePOI" =>
                 /\ POI' = POI
                 /\ persistentPOI' = filter_chunk(Head(q)[2], persistentPOI)
      ]_vars

\* a NewPOI was applied over a non-empty persistent sequence, and a RemovePOI
\* that removed an entry was applied over a non-empty self.POI
C19_Witness ==
    /\ InRun
    /\ \E n \in 1..Len(hist) :
           /\ hist[n].item[1] = "newpoi"
           /\ hist[n].before.persistent # << >>
    /\ \E n \in 1..Len(hist) :
           /\ hist[n].item[1] = "removePOI"
           /\ hist[n].before.POI # << >>
           /\ hist[n].after.persistent # hist[n].before.persistent

\* ---------------------------------------------------------------------------
\* C20: the cache index is one for the whole process and only grows: building
\* a WorldRenderer removes no entry, and changes an entry only when its cache
\* directory holds a file with the same key; so an entry indexed when an
\* earlier WorldRenderer was built, for any cache directory, is what a lookup
\* in a later WorldRenderer's run returns.
C20_IndexOnlyGrows ==
    /\ [][\A k \in DOMAIN cached :
             /\ k \in DOMAIN cached'
             /\ cached'[k] # cached[k] =>
                    \E f \in FilesOf(cachedir') : f[1] = k /\ f[2] = cached'[k]
         ]_vars
    /\ [](Returning =>
             \A n \in 1..Len(chunks) :
                 (chunks[n][3] \in DOMAIN cached /\ chunks[n][3] \in FreshChunks) =>
                     /\ <<chunks[n][1], chunks[n][2]>> \in DOMAIN results
                     /\ results[<<chunks[n][1], chunks[n][2]>>] =
                            cached[chunks[n][3]])

\* the run of a WorldRenderer built for the other directory returns the image
\* of chunk A that was indexed for the first directory, next to an entry that
\* the other directory overwrote
C20_Witness ==
    /\ pc = "return"
    /\ cachedir = OtherDir
    /\ \E f \in CacheDirFiles : f[1] = ChunkA /\ f[2] \in {results[k] : k \in DOMAIN results}
    /\ \E f \in OtherDirFiles : f[1] = ChunkB /\ cached[ChunkB] = f[2]
    /\ \A f \in OtherDirFiles : f[1] # ChunkA

====
